---- MODULE Spec2Model ----
(***************************************************************************)
(* Range-check gadget of src/range_check/example4.rs.                      *)
(*                                                                         *)
(* RangeCheckConfig registers one custom gate (selector q_range_check) and *)
(* one lookup argument (selector q_lookup) over a single advice column     *)
(* `value`; assign_simple / assign_lookup open a fresh region, enable one  *)
(* selector at offset 0 and write the witness there.  MyCircuit is the     *)
(* driver: configure, then synthesize = table load ; assign_simple.        *)
(*                                                                         *)
(* The field F is a prime field.  The model instantiates the generic       *)
(* parameter F with the smallest prime field that is strictly larger than  *)
(* every range the model enumerates (as usize ranges are smaller than the  *)
(* modulus of every field the gadget is used with).                        *)
(***************************************************************************)
EXTENDS Integers, Sequences, FiniteSets

\* ------------------------------------------------------------------ bounds
\* Largest RANGE const generic enumerated (0 is included: it is the
\* parameter the configure-time assertion rejects).
MaxRange == 3
\* Largest LOOKUP_RANGE const generic enumerated.
MaxLookupRange == 2
\* Largest number of usable rows of a circuit (2^k minus blinding rows).
MaxRows == 2

Max2(a, b) == IF a >= b THEN a ELSE b

IsPrime(n) == n > 1 /\ \A d \in 2..(n - 1) : n % d # 0

\* Modulus of the field F: the smallest prime p with p > MaxRange + 1 and
\* p > MaxLookupRange + 1, so that RANGE and LOOKUP_RANGE themselves, and
\* one more value, are field elements outside the ranges.
Modulus ==
    LET lo == Max2(MaxRange, MaxLookupRange) + 2
    IN  CHOOSE p \in lo..(2 * lo) :
            IsPrime(p) /\ \A q \in lo..(p - 1) : ~IsPrime(q)

\* --------------------------------------------------------- field arithmetic
Felt == 0..(Modulus - 1)

\* F::from(i as u64)
FFrom(n) == n % Modulus

FSub(a, b) == (a + Modulus - b) % Modulus

FMul(a, b) == (a * b) % Modulus

\* Value::unknown(): a witness with no concrete value (a tag outside Felt).
Unknown == -1

\* A cell of the advice column no region has written (a tag outside Felt).
Unassigned == -2

\* Value<Assigned<F>>: known field element or unknown.
Witness == Felt \cup {Unknown}

VARIABLES
    RANGE,          \* const generic RANGE of the circuit type
    LOOKUP_RANGE,   \* const generic LOOKUP_RANGE of the circuit type
    usable_rows,    \* rows the backend can place cells in
    config,         \* result of configure: status "none" | "ok" | "panicked"
    layouter,       \* the layouter of the current synthesis pass
    calls,          \* assign_simple / assign_lookup calls made on the layouter
    last,           \* the last operation and how it ended
    steps,          \* the steps the last synthesize executed, in order
    circuit,        \* MyCircuit: the two witness slots
    phase,          \* lifecycle of the test harness
    vk,             \* circuit shape fixed by key generation
    verdict,        \* outcome of verify_proof
    keygen_circuit  \* the circuit key generation synthesized

vars == <<RANGE, LOOKUP_RANGE, usable_rows, config, layouter, calls, last,
          steps, circuit, phase, vk, verdict, keygen_circuit>>


\* ------------------------------------------------------ constraint system

\* Variant: the assertion accepts every usize.
assert_range_off(range) == range >= 0

\* assert!(range > 0) inside the range_check closure: the closure runs while
\* create_gate runs, i.e. during configure.
assert_range(range) == range > 0

\* (1..range).fold(value, |expr, i| expr * (Constant(F::from(i)) - value)),
\* evaluated at a field element: v * (1 - v) * (2 - v) * ... * (range - 1 - v).
RECURSIVE fold_range(_, _, _, _)
fold_range(i, range, expr, value) ==
    IF i >= range
    THEN expr
    ELSE fold_range(i + 1, range, FMul(expr, FSub(FFrom(i), value)), value)

\* Variant: the fold starts at 2, dropping the factor (1 - v).
range_check_skip_first(range, value) == fold_range(2, range, value, value)

\* Variant: the fold runs over 1..=range, adding the factor (range - v).
range_check_inclusive(range, value) == fold_range(1, range + 1, value, value)

range_check(range, value) == fold_range(1, range, value, value)

\* RangeCheckConfig::configure: two selectors, the table, one instance column
\* with equality enabled, then the gate (whose closure asserts range > 0) and
\* the lookup.  A failed assertion unwinds out of configure: no Self is built.
configure(range) ==
    IF ~assert_range(range)
    THEN [status |-> "panicked", selectors |-> 2, instance |-> 1,
          gates |-> 0, lookups |-> 0]
    ELSE [status |-> "ok", selectors |-> 2, instance |-> 1,
          gates |-> 1, lookups |-> 1]

NoConfig ==
    [status |-> "none", selectors |-> 0, instance |-> 0, gates |-> 0,
     lookups |-> 0]

\* --------------------------------------------------------------- layouter

Rows(lay) == 0..(lay.usable - 1)

\* The layouter a backend hands to synthesize.  mode "shape": a pass that
\* fixes the circuit's shape and ignores advice values (key generation);
\* mode "witness": a pass that records the advice values (proof creation).
NewLayouter(mode, rows) ==
    [mode          |-> mode,
     usable        |-> rows,
     next_row      |-> 0,
     q_range_check |-> {},
     q_lookup      |-> {},
     value         |-> [r \in 0..(rows - 1) |-> Unassigned],
     table         |-> [r \in 0..(rows - 1) |-> 0],
     loaded        |-> FALSE]

NoLayouter == NewLayouter("none", 0)

\* What region.assign_advice(.., || value) leaves in the cell: a pass that
\* records witnesses stores the value, a shape pass only marks the cell.
Written(lay, value) == IF lay.mode = "witness" THEN value ELSE Unknown

\* RangeTableConfig::load: on success the table column holds 0..L-1 in
\* ascending order; the rows behind it hold the column's default, 0.
load(lay) ==
    IF LOOKUP_RANGE > lay.usable
    THEN [lay |-> lay, res |-> "Err"]
    ELSE [lay |-> [lay EXCEPT
                     !.table = [r \in Rows(lay) |->
                                  IF r < LOOKUP_RANGE THEN FFrom(r) ELSE 0],
                     !.loaded = TRUE],
          res |-> "Ok"]

\* Variant: assign_simple rejects a known value outside [0, RANGE).
assign_simple_checked(lay, value) ==
    LET offset == 0
        row    == lay.next_row + offset
    IN  IF row >= lay.usable \/ (value # Unknown /\ value >= RANGE)
        THEN [lay  |-> lay,
              res  |-> "Err",
              call |-> [op |-> "assign_simple", res |-> "Err", row |-> row,
                        bound |-> RANGE]]
        ELSE [lay  |-> [lay EXCEPT !.q_range_check = @ \cup {row},
                                   !.value[row] = Written(lay, value),
                                   !.next_row = row + 1],
              res  |-> "Ok",
              call |-> [op |-> "assign_simple", res |-> "Ok", row |-> row,
                        bound |-> RANGE]]

\* Variant: assign_simple unwraps the backend's result instead of
\* returning it.
assign_simple_unwrap(lay, value) ==
    LET offset == 0
        row    == lay.next_row + offset
    IN  IF row >= lay.usable
        THEN [lay  |-> lay,
              res  |-> "Panic",
              call |-> [op |-> "assign_simple", res |-> "Panic", row |-> row,
                        bound |-> RANGE]]
        ELSE [lay  |-> [lay EXCEPT !.q_range_check = @ \cup {row},
                                   !.value[row] = Written(lay, value),
                                   !.next_row = row + 1],
              res  |-> "Ok",
              call |-> [op |-> "assign_simple", res |-> "Ok", row |-> row,
                        bound |-> RANGE]]

\* Variant: assign_simple places nothing for an unknown value.
assign_simple_skip_unknown(lay, value) ==
    LET offset == 0
        row    == lay.next_row + offset
    IN  IF row >= lay.usable
        THEN [lay  |-> lay,
              res  |-> "Err",
              call |-> [op |-> "assign_simple", res |-> "Err", row |-> row,
                        bound |-> RANGE]]
        ELSE IF value = Unknown
        THEN [lay  |-> lay,
              res  |-> "Ok",
              call |-> [op |-> "assign_simple", res |-> "Ok", row |-> row,
                        bound |-> RANGE]]
        ELSE [lay  |-> [lay EXCEPT !.q_range_check = @ \cup {row},
                                   !.value[row] = Written(lay, value),
                                   !.next_row = row + 1],
              res  |-> "Ok",
              call |-> [op |-> "assign_simple", res |-> "Ok", row |-> row,
                        bound |-> RANGE]]

\* assign_simple: a fresh region; at offset 0 enable q_range_check and
\* assign the value; the cell comes back tagged with RANGE.
assign_simple(lay, value) ==
    LET offset == 0
        row    == lay.next_row + offset
    IN  IF row >= lay.usable
        THEN [lay  |-> lay,
              res  |-> "Err",
              call |-> [op |-> "assign_simple", res |-> "Err", row |-> row,
                        bound |-> RANGE]]
        ELSE [lay  |-> [lay EXCEPT !.q_range_check = @ \cup {row},
                                   !.value[row] = Written(lay, value),
                                   !.next_row = row + 1],
              res  |-> "Ok",
              call |-> [op |-> "assign_simple", res |-> "Ok", row |-> row,
                        bound |-> RANGE]]

\* Variant: assign_lookup enables q_range_check (the selector of the
\* function it was copied from).
assign_lookup_wrong_selector(lay, value) ==
    LET offset == 0
        row    == lay.next_row + offset
    IN  IF row >= lay.usable
        THEN [lay  |-> lay,
              res  |-> "Err",
              call |-> [op |-> "assign_lookup", res |-> "Err", row |-> row,
                        bound |-> LOOKUP_RANGE]]
        ELSE [lay  |-> [lay EXCEPT !.q_range_check = @ \cup {row},
                                   !.value[row] = Written(lay, value),
                                   !.next_row = row + 1],
              res  |-> "Ok",
              call |-> [op |-> "assign_lookup", res |-> "Ok", row |-> row,
                        bound |-> LOOKUP_RANGE]]

\* Variant: assign_lookup enables both selectors.
assign_lookup_both(lay, value) ==
    LET offset == 0
        row    == lay.next_row + offset
    IN  IF row >= lay.usable
        THEN [lay  |-> lay,
              res  |-> "Err",
              call |-> [op |-> "assign_lookup", res |-> "Err", row |-> row,
                        bound |-> LOOKUP_RANGE]]
        ELSE [lay  |-> [lay EXCEPT !.q_range_check = @ \cup {row},
                                   !.q_lookup = @ \cup {row},
                                   !.value[row] = Written(lay, value),
                                   !.next_row = row + 1],
              res  |-> "Ok",
              call |-> [op |-> "assign_lookup", res |-> "Ok", row |-> row,
                        bound |-> LOOKUP_RANGE]]

\* assign_lookup: the same with q_lookup; the cell is tagged LOOKUP_RANGE.
assign_lookup(lay, value) ==
    LET offset == 0
        row    == lay.next_row + offset
    IN  IF row >= lay.usable
        THEN [lay  |-> lay,
              res  |-> "Err",
              call |-> [op |-> "assign_lookup", res |-> "Err", row |-> row,
                        bound |-> LOOKUP_RANGE]]
        ELSE [lay  |-> [lay EXCEPT !.q_lookup = @ \cup {row},
                                   !.value[row] = Written(lay, value),
                                   !.next_row = row + 1],
              res  |-> "Ok",
              call |-> [op |-> "assign_lookup", res |-> "Ok", row |-> row,
                        bound |-> LOOKUP_RANGE]]

\* MyCircuit::without_witnesses: Self::default(), both slots unknown.
without_witnesses(c) == [value |-> Unknown, lookup_value |-> Unknown]

\* Variant: the assign_lookup call is not commented out.
synthesize_both_paths(c, lay) ==
    LET l == load(lay)
    IN  IF l.res # "Ok"
        THEN [lay   |-> l.lay,
              res   |-> l.res,
              steps |-> <<[op |-> "load", res |-> l.res, slot |-> "none",
                           known |-> FALSE]>>,
              calls |-> <<>>]
        ELSE LET a == assign_simple(l.lay, c.value)
                 b == assign_lookup(a.lay, c.lookup_value)
                 s1 == <<[op |-> "load", res |-> l.res, slot |-> "none",
                          known |-> FALSE],
                         [op |-> "assign_simple", res |-> a.res,
                          slot |-> "value", known |-> c.value # Unknown]>>
             IN  IF a.res # "Ok"
                 THEN [lay |-> a.lay, res |-> a.res, steps |-> s1,
                       calls |-> <<a.call>>]
                 ELSE [lay   |-> b.lay,
                       res   |-> b.res,
                       steps |-> Append(s1,
                                   [op |-> "assign_lookup", res |-> b.res,
                                    slot |-> "lookup_value",
                                    known |-> c.lookup_value # Unknown]),
                       calls |-> <<a.call, b.call>>]

\* MyCircuit::synthesize: config.table.load(..)?; config.assign_simple(..,
\* self.value)?; Ok(()).  The assign_lookup call is commented out.
synthesize(c, lay) ==
    LET l == load(lay)
    IN  IF l.res # "Ok"
        THEN [lay   |-> l.lay,
              res   |-> l.res,
              steps |-> <<[op |-> "load", res |-> l.res, slot |-> "none",
                           known |-> FALSE]>>,
              calls |-> <<>>]
        ELSE LET a == assign_simple(l.lay, c.value)
             IN  [lay   |-> a.lay,
                  res   |-> a.res,
                  steps |-> <<[op |-> "load", res |-> l.res, slot |-> "none",
                               known |-> FALSE],
                              [op |-> "assign_simple", res |-> a.res,
                               slot |-> "value", known |-> c.value # Unknown]>>,
                  calls |-> <<a.call>>]

\* ------------------------------------------------- constraint evaluation

\* A selector column at a row: 1 where enabled, 0 elsewhere.
Sel(rows, r) == IF r \in rows THEN 1 ELSE 0

\* The advice cell a constraint queries at Rotation::cur(); a cell holding
\* no concrete value evaluates as 0.
Cell(lay, r) == IF lay.value[r] \in Felt THEN lay.value[r] ELSE 0

\* Constraints::with_selector(q, [range_check(RANGE, value)]) at row r.
GateValue(lay, r) ==
    FMul(Sel(lay.q_range_check, r), range_check(RANGE, Cell(lay, r)))

GateSatisfied(lay, r) == GateValue(lay, r) = 0

\* Variant: the lookup input is the bare value, without the selector.
LookupInput_no_selector(lay, r) == Cell(lay, r)

\* meta.lookup: the input expression q_lookup * value at row r.
LookupInput(lay, r) == FMul(Sel(lay.q_lookup, r), Cell(lay, r))

TableValues(lay) == {lay.table[r] : r \in Rows(lay)}

LookupSatisfied(lay, r) == LookupInput(lay, r) \in TableValues(lay)

\* What key generation fixes of a pass: the selector columns, the table
\* column and which advice cells are assigned (not what they hold).
Shape(lay) ==
    [q_range_check |-> lay.q_range_check,
     q_lookup      |-> lay.q_lookup,
     assigned      |-> {r \in Rows(lay) : lay.value[r] # Unassigned},
     table         |-> lay.table]

\* verify_proof with the key `key` and no public inputs: the proof of a
\* trace is accepted iff, on every row, the gate and the lookup hold with
\* the key's selector and table columns and the trace's advice column.
verify_proof(key, lay) ==
    LET keyed == [lay EXCEPT !.q_range_check = key.q_range_check,
                             !.q_lookup = key.q_lookup,
                             !.table = key.table]
    IN  IF \A r \in Rows(lay) : GateSatisfied(keyed, r) /\ LookupSatisfied(keyed, r)
        THEN "accept"
        ELSE "reject"

\* ------------------------------------------------------------------- Init

\* MyCircuit::default(): both witness slots unknown.
DefaultCircuit == [value |-> Unknown, lookup_value |-> Unknown]

Params ==
    /\ RANGE \in 0..MaxRange
    /\ LOOKUP_RANGE \in 0..MaxLookupRange
    /\ usable_rows \in 1..MaxRows

Fresh ==
    /\ config = NoConfig
    /\ layouter = NoLayouter
    /\ calls = <<>>
    /\ last = [op |-> "none", res |-> "Ok"]
    /\ steps = <<>>
    /\ phase = "Configuring"
    /\ vk = Shape(NoLayouter)
    /\ verdict = "none"
    /\ keygen_circuit = DefaultCircuit

\* The gadget used by any circuit: no driver is fixed.
Init == Params /\ Fresh /\ circuit = DefaultCircuit

\* The values a caller hands to an assignment: a pass that records
\* witnesses is driven with known values, a shape pass with any.
Inputs(lay) == IF lay.mode = "witness" THEN Felt ELSE Witness

\* ---------------------------------------------------------------- actions

\* MyCircuit::configure: allocate the advice column, then
\* RangeCheckConfig::configure.
Configure ==
    /\ config.status = "none"
    /\ config' = configure(RANGE)
    /\ last' = [op |-> "configure",
                res |-> IF config'.status = "ok" THEN "Ok" ELSE "Panic"]
    /\ UNCHANGED <<RANGE, LOOKUP_RANGE, usable_rows, layouter, calls, steps,
                   circuit, phase, vk, verdict, keygen_circuit>>

\* A backend starts a synthesis pass with a fresh layouter.  The methods
\* below take &self / a Config value: they need a config that was built.
BeginPass ==
    /\ config.status = "ok"
    /\ \E mode \in {"shape", "witness"} :
          layouter' = NewLayouter(mode, usable_rows)
    /\ calls' = <<>>
    /\ steps' = <<>>
    /\ last' = [op |-> "begin", res |-> "Ok"]
    /\ UNCHANGED <<RANGE, LOOKUP_RANGE, usable_rows, config, circuit, phase,
                   vk, verdict, keygen_circuit>>

InPass == config.status = "ok" /\ layouter.mode # "none"

\* One failing call per layouter is enough to see every failure.
CanCall ==
    /\ InPass
    /\ IF calls = <<>> THEN TRUE ELSE calls[Len(calls)].res = "Ok"

Load ==
    /\ InPass
    /\ ~layouter.loaded
    /\ LET l == load(layouter)
       IN  /\ layouter' = l.lay
           /\ last' = [op |-> "load", res |-> l.res]
    /\ UNCHANGED <<RANGE, LOOKUP_RANGE, usable_rows, config, calls, steps,
                   circuit, phase, vk, verdict, keygen_circuit>>

AssignSimple ==
    /\ CanCall
    /\ \E v \in Inputs(layouter) :
          LET a == assign_simple(layouter, v)
          IN  /\ layouter' = a.lay
              /\ calls' = Append(calls, a.call)
              /\ last' = [op |-> "assign_simple", res |-> a.res]
    /\ UNCHANGED <<RANGE, LOOKUP_RANGE, usable_rows, config, steps, circuit,
                   phase, vk, verdict, keygen_circuit>>

AssignLookup ==
    /\ CanCall
    /\ \E v \in Inputs(layouter) :
          LET a == assign_lookup(layouter, v)
          IN  /\ layouter' = a.lay
              /\ calls' = Append(calls, a.call)
              /\ last' = [op |-> "assign_lookup", res |-> a.res]
    /\ UNCHANGED <<RANGE, LOOKUP_RANGE, usable_rows, config, steps, circuit,
                   phase, vk, verdict, keygen_circuit>>

\* MyCircuit::synthesize on the fresh layouter of a pass.
Synthesize ==
    /\ InPass
    /\ last.op = "begin"
    /\ \E v \in Inputs(layouter), w \in Inputs(layouter) :
          LET s == synthesize([value |-> v, lookup_value |-> w], layouter)
          IN  /\ layouter' = s.lay
              /\ calls' = s.calls
              /\ steps' = s.steps
              /\ last' = [op |-> "synthesize", res |-> s.res]
    /\ UNCHANGED <<RANGE, LOOKUP_RANGE, usable_rows, config, circuit, phase,
                   vk, verdict, keygen_circuit>>

Next ==
    \/ Configure
    \/ BeginPass
    \/ Load
    \/ AssignSimple
    \/ AssignLookup
    \/ Synthesize

Spec == Init /\ [][Next]_vars

\* ------------------------------------------------- the driver's lifecycle
\* tests::test_range_check_1: configure, key generation, proof creation,
\* verification, each once and in this order; unwrap / expect end the run
\* at the first failure.

DriverInit == Params /\ Fresh /\ circuit \in [value : Felt, lookup_value : Felt]

Configuring ==
    /\ phase = "Configuring"
    /\ config' = configure(RANGE)
    /\ phase' = IF config'.status = "ok" THEN "ShapeDetermination" ELSE "Aborted"
    /\ last' = [op |-> "configure",
                res |-> IF config'.status = "ok" THEN "Ok" ELSE "Panic"]
    /\ UNCHANGED <<RANGE, LOOKUP_RANGE, usable_rows, layouter, calls, steps,
                   circuit, vk, verdict, keygen_circuit>>

\* keygen_vk / keygen_pk: synthesize in a pass that fixes the shape.  The
\* harness hands over its circuit; the floor planner measures the shape on
\* circuit.without_witnesses().
ShapeDetermination ==
    /\ phase = "ShapeDetermination"
    /\ \E c \in {circuit, without_witnesses(circuit)} :
          LET s == synthesize(c, NewLayouter("shape", usable_rows))
          IN  /\ keygen_circuit' = c
              /\ layouter' = s.lay
              /\ calls' = s.calls
              /\ steps' = s.steps
              /\ last' = [op |-> "keygen_vk", res |-> s.res]
              /\ vk' = IF s.res = "Ok" THEN Shape(s.lay) ELSE vk
              /\ phase' = IF s.res = "Ok" THEN "Proving" ELSE "Aborted"
    /\ UNCHANGED <<RANGE, LOOKUP_RANGE, usable_rows, config, circuit, verdict>>

\* create_proof: synthesize with the known witnesses, recording the trace.
Proving ==
    /\ phase = "Proving"
    /\ LET s == synthesize(circuit, NewLayouter("witness", usable_rows))
       IN  /\ layouter' = s.lay
           /\ calls' = s.calls
           /\ steps' = s.steps
           /\ last' = [op |-> "create_proof", res |-> s.res]
           /\ phase' = IF s.res = "Ok" THEN "Verifying" ELSE "Aborted"
    /\ UNCHANGED <<RANGE, LOOKUP_RANGE, usable_rows, config, circuit, vk,
                   verdict, keygen_circuit>>

\* verify_proof against pk.get_vk() and empty public inputs.
Verifying ==
    /\ phase = "Verifying"
    /\ verdict' = verify_proof(vk, layouter)
    /\ phase' = "Done"
    /\ last' = [op |-> "verify_proof", res |-> "Ok"]
    /\ UNCHANGED <<RANGE, LOOKUP_RANGE, usable_rows, config, layouter, calls,
                   steps, circuit, vk, keygen_circuit>>

DriverNext ==
    \/ Configuring
    \/ ShapeDetermination
    \/ Proving
    \/ Verifying

DriverSpec == DriverInit /\ [][DriverNext]_vars

\* ============================================================== properties

\* Indices of the calls of `op` on the current layouter that returned Ok.
OkCalls(op) == {i \in 1..Len(calls) : calls[i].op = op /\ calls[i].res = "Ok"}

InRange(v, n) == v \in 0..(n - 1)

\* A pass whose advice values are recorded, so constraints can be evaluated.
Recording == config.status = "ok" /\ layouter.mode = "witness"

\* C1: for RANGE > 0 and v in [0, RANGE), after assign_simple(v) the row of
\* the call has q_range_check enabled and the gate polynomial
\* v * (1 - v) * ... * (RANGE - 1 - v) evaluates to zero there.
RangeCheckSatisfiedInRange ==
    Recording =>
        \A i \in OkCalls("assign_simple") :
            LET r == calls[i].row
                v == layouter.value[r]
            IN  (RANGE > 0 /\ InRange(v, RANGE)) =>
                    /\ r \in layouter.q_range_check
                    /\ range_check(RANGE, v) = 0
                    /\ GateSatisfied(layouter, r)

\* C1 witness: RANGE = 3 and assign_simple(2) has placed its row.
RangeCheckSatisfiedWitness ==
    /\ Recording
    /\ RANGE = 3
    /\ \E i \in OkCalls("assign_simple") :
          /\ layouter.value[calls[i].row] = 2
          /\ GateSatisfied(layouter, calls[i].row)

\* C2: for RANGE > 0 and a field element v outside [0, RANGE), after
\* assign_simple(v) the gate evaluates non-zero on the enabled row; the
\* roots of the gate polynomial are exactly 0..RANGE-1.
RangeCheckUnsatisfiedOutOfRange ==
    /\ Recording =>
          \A i \in OkCalls("assign_simple") :
              LET r == calls[i].row
                  v == layouter.value[r]
              IN  (RANGE > 0 /\ v \in Felt /\ ~InRange(v, RANGE)) =>
                      /\ r \in layouter.q_range_check
                      /\ GateValue(layouter, r) # 0
                      /\ ~GateSatisfied(layouter, r)
    /\ config.status = "ok" =>
          {v \in Felt : range_check(RANGE, v) = 0} = 0..(RANGE - 1)

\* C2 witness: RANGE = 3 and assign_simple(3) has placed its row, where the
\* gate does not hold.
RangeCheckUnsatisfiedWitness ==
    /\ Recording
    /\ RANGE = 3
    /\ \E i \in OkCalls("assign_simple") :
          /\ layouter.value[calls[i].row] = 3
          /\ ~GateSatisfied(layouter, calls[i].row)

\* C3: for LOOKUP_RANGE > 0 and a loaded table, after assign_lookup(v) the
\* row of the call has q_lookup enabled, its lookup input is v, and the
\* lookup holds there exactly when v is in [0, LOOKUP_RANGE).
LookupSatisfiedIffInRange ==
    (Recording /\ layouter.loaded /\ LOOKUP_RANGE > 0) =>
        \A i \in OkCalls("assign_lookup") :
            LET r == calls[i].row
                v == layouter.value[r]
            IN  /\ r \in layouter.q_lookup
                /\ LookupInput(layouter, r) = v
                /\ LookupSatisfied(layouter, r) <=> InRange(v, LOOKUP_RANGE)
                /\ (v \in TableValues(layouter)) <=> InRange(v, LOOKUP_RANGE)

\* C3 witness: on one layouter with the table 0..1 loaded, assign_lookup(1)
\* is satisfied and assign_lookup(2) fails the lookup.
LookupWitness ==
    /\ Recording /\ layouter.loaded /\ LOOKUP_RANGE = 2
    /\ \E i \in OkCalls("assign_lookup") :
          /\ layouter.value[calls[i].row] = 1
          /\ LookupSatisfied(layouter, calls[i].row)
    /\ \E i \in OkCalls("assign_lookup") :
          /\ layouter.value[calls[i].row] = 2
          /\ ~LookupSatisfied(layouter, calls[i].row)

\* C4: on one layouter, every call that returned Ok enabled its own
\* selector, and only that one, on one row of its own; the rows with
\* q_range_check are exactly the rows of the assign_simple calls, the rows
\* with q_lookup exactly those of the assign_lookup calls, no row has both,
\* and no two calls wrote the value column at the same row.
OneSelectorPerCall ==
    config.status = "ok" =>
        /\ layouter.q_range_check =
               {calls[i].row : i \in OkCalls("assign_simple")}
        /\ layouter.q_lookup =
               {calls[i].row : i \in OkCalls("assign_lookup")}
        /\ layouter.q_range_check \cap layouter.q_lookup = {}
        /\ \A i, j \in OkCalls("assign_simple") \cup OkCalls("assign_lookup") :
               i # j => calls[i].row # calls[j].row
        /\ \A i \in OkCalls("assign_simple") \cup OkCalls("assign_lookup") :
               layouter.value[calls[i].row] # Unassigned
        /\ Cardinality(layouter.q_range_check) + Cardinality(layouter.q_lookup)
               = Cardinality(OkCalls("assign_simple") \cup OkCalls("assign_lookup"))

\* C4 witness: one layouter has taken an assign_simple and an assign_lookup.
OneSelectorPerCallWitness ==
    /\ OkCalls("assign_simple") # {}
    /\ OkCalls("assign_lookup") # {}
    /\ layouter.q_range_check # {}
    /\ layouter.q_lookup # {}

\* The structural part of an assignment's outcome: the result, the call
\* record and the shape of the layouter it leaves.
Outcome(a) == <<a.res, a.call, Shape(a.lay), a.lay.next_row>>

ConstraintFamiliesIndependent ==
    (Recording /\ layouter.loaded /\ LOOKUP_RANGE > 0) =>
        \A r \in Rows(layouter) :
            /\ r \notin layouter.q_lookup =>
                   /\ LookupInput(layouter, r) = 0
                   /\ LookupSatisfied(layouter, r)
            /\ r \notin layouter.q_range_check => GateSatisfied(layouter, r)

\* C10 witness: RANGE < LOOKUP_RANGE; an assign_simple row holds a value
\* that is not in the table and an assign_lookup row holds a value in
\* [RANGE, LOOKUP_RANGE); neither row fails the other family's constraint.
ConstraintFamiliesWitness ==
    /\ Recording /\ layouter.loaded /\ LOOKUP_RANGE > RANGE
    /\ \E i \in OkCalls("assign_simple") :
          /\ layouter.value[calls[i].row] \in Felt
          /\ layouter.value[calls[i].row] \notin TableValues(layouter)
          /\ LookupSatisfied(layouter, calls[i].row)
    /\ \E i \in OkCalls("assign_lookup") :
          /\ InRange(layouter.value[calls[i].row], LOOKUP_RANGE)
          /\ ~InRange(layouter.value[calls[i].row], RANGE)
          /\ range_check(RANGE, layouter.value[calls[i].row]) # 0
          /\ GateSatisfied(layouter, calls[i].row)

\* C6: RANGE = 0 is detected by configure and is fatal: configure produces
\* no config, the run ends there, and no synthesis pass, assignment, key or
\* verdict exists for that circuit; for RANGE > 0 configure completes.
ZeroRangeAbortsConfigure ==
    /\ RANGE = 0 =>
          /\ config.status \in {"none", "panicked"}
          /\ phase \in {"Configuring", "Aborted"}
          /\ last.op \in {"none", "configure"}
          /\ layouter = NoLayouter
          /\ calls = <<>>
          /\ steps = <<>>
          /\ vk = Shape(NoLayouter)
          /\ verdict = "none"
    /\ (RANGE = 0 /\ phase # "Configuring") =>
          /\ config.status = "panicked"
          /\ phase = "Aborted"
          /\ last = [op |-> "configure", res |-> "Panic"]
    /\ (RANGE > 0 /\ phase # "Configuring") => config.status = "ok"
    /\ config.status = "panicked" => RANGE = 0

\* C6 witness: configure has run for a circuit type with RANGE = 0.
ZeroRangeAbortsConfigureWitness ==
    /\ RANGE = 0
    /\ last.op = "configure"
    /\ config.status = "panicked"
    /\ phase = "Aborted"

\* C7 as stated: no operation of the gadget ever ends by aborting.
NoOperationAborts == last.res # "Panic"

Fallible == {"load", "assign_simple", "assign_lookup", "synthesize"}

\* C7 as amended: every failure of load, assign_simple, assign_lookup and
\* synthesize is a returned Err (an operation that cannot place its cells
\* returns Err and places nothing); the only aborting failure is configure's
\* assertion, which fires exactly for RANGE = 0.
OnlyConfigureAborts ==
    /\ last.res \in {"Ok", "Err", "Panic"}
    /\ last.res = "Panic" =>
          /\ last.op = "configure"
          /\ RANGE = 0
          /\ config.status = "panicked"
    /\ last.op \in Fallible => last.res \in {"Ok", "Err"}
    /\ \A i \in 1..Len(calls) : calls[i].res \in {"Ok", "Err"}
    /\ \A i \in 1..Len(steps) : steps[i].res \in {"Ok", "Err"}
    /\ (last.op \in {"assign_simple", "assign_lookup"}
            /\ calls[Len(calls)].row >= layouter.usable) => last.res = "Err"
    /\ (last.op = "load" /\ LOOKUP_RANGE > layouter.usable) => last.res = "Err"
    /\ (last.op = "configure" /\ RANGE > 0) => last.res = "Ok"

\* C7 witness: assign_simple found no usable row and returned Err.
AssignFailureReturnedWitness ==
    /\ last = [op |-> "assign_simple", res |-> "Err"]
    /\ calls[Len(calls)].res = "Err"
    /\ layouter.next_row = layouter.usable

\* C8: the shape the proving pass produces equals the shape key generation
\* fixed, whether key generation synthesized the circuit or its
\* without_witnesses() copy; key generation succeeds whenever the table
\* fits the usable rows, whatever the witnesses; and the run Configuring ->
\* ShapeDetermination -> Proving -> Verifying ends in acceptance exactly
\* when the witness is in [0, RANGE).
KeyUsableForProving ==
    /\ phase \in {"Verifying", "Done"} =>
          /\ layouter.mode = "witness"
          /\ Shape(layouter) = vk
          /\ vk.q_range_check = {0}
    /\ last.op = "keygen_vk" =>
          (last.res = "Ok" <=> LOOKUP_RANGE <= usable_rows)
    /\ phase = "Done" =>
          (verdict = "accept" <=> InRange(circuit.value, RANGE))
    /\ verdict # "none" => phase = "Done"

\* C8 witness: the key came from the without_witnesses() copy and the proof
\* of the in-range witness 2 (RANGE = 3) was accepted.
KeyUsableForProvingWitness ==
    /\ phase = "Done"
    /\ keygen_circuit = without_witnesses(circuit)
    /\ RANGE = 3
    /\ circuit.value = 2
    /\ verdict = "accept"

\* C9: a synthesis pass runs load first; it runs assign_simple, on the first
\* witness slot, exactly once and only after load returned Ok; it never runs
\* assign_lookup nor reads the lookup slot; the first failing step is the
\* last step, its error is the pass's result, and the run ends there.
SynthesizeRunsOnePath ==
    /\ steps # <<>> =>
          /\ steps[1].op = "load"
          /\ Len(steps) \in {1, 2}
          /\ Len(steps) = 2 <=> steps[1].res = "Ok"
          /\ Len(steps) = 2 =>
                 /\ steps[2].op = "assign_simple"
                 /\ steps[2].slot = "value"
          /\ \A i \in 1..Len(steps) :
                 /\ steps[i].op # "assign_lookup"
                 /\ steps[i].slot # "lookup_value"
                 /\ steps[i].res # "Ok" => i = Len(steps)
          /\ Len(calls) = Len(steps) - 1
          /\ OkCalls("assign_lookup") = {}
          /\ layouter.q_lookup = {}
          /\ last.op \in {"keygen_vk", "create_proof"} =>
                 /\ last.res = steps[Len(steps)].res
                 /\ last.res # "Ok" => phase = "Aborted"
    /\ phase \in {"ShapeDetermination", "Proving"} =>
          \A w \in Witness :
              synthesize([circuit EXCEPT !.lookup_value = w],
                         NewLayouter("witness", usable_rows))
                  = synthesize(circuit, NewLayouter("witness", usable_rows))

\* C9 witness: the proving pass (the second pass of the run) ran load and
\* then assign_simple, both Ok.
SynthesizeRunsOnePathWitness ==
    /\ last = [op |-> "create_proof", res |-> "Ok"]
    /\ Len(steps) = 2
    /\ steps[1].op = "load" /\ steps[1].res = "Ok"
    /\ steps[2].op = "assign_simple" /\ steps[2].res = "Ok"
    /\ layouter.q_range_check = {0}

====
